---- MODULE Spec2Model ----
(***************************************************************************)
(* Model of main.py: the FastAPI endpoints register_client and submit_task *)
(* and the Celery task scrape_and_store, with the MongoDB collections, the *)
(* Celery queue, the browser sessions and the CSV file they act on.        *)
(*                                                                         *)
(* An external call (browser driver, MongoDB, broker, file system) either  *)
(* returns or raises; a call that raises has had no effect.  A browser     *)
(* session that has crashed makes every later driver call on it raise.     *)
(* Timestamps (created_at, registered_at, scraped_at) are left out: no     *)
(* modelled step reads them.                                               *)
(***************************************************************************)
EXTENDS Naturals, Sequences, FiniteSets

\* ---------------------------------------------------------------- bounds
MaxTasks == 2      \* submit_task calls
NumWorkers == 2    \* Celery worker processes
MaxRegs == 3       \* register_client calls
MaxChain == 3      \* selectors in a list given to safe_find_text_by_css
MaxPriceLen == 3   \* characters of an enumerated price text
MaxThumbs == 6     \* thumbnails on a page
MaxAnchors == 3    \* product anchors on a page

\* ---------------------------------------------------------------- inputs
TaskRequests ==
  { [client_name |-> "alice", category |-> "toys",  url |-> "walmart/ip/1"],
    [client_name |-> "bob",   category |-> "games", url |-> "walmart/ip/2"] }

ClientRequests ==
  { [client_name |-> "alice", client_email |-> "a@x"],
    [client_name |-> "bob",   client_email |-> "a@x"],
    [client_name |-> "bob",   client_email |-> "b@x"] }

\* ------------------------------------------------------------------ text
\* A text is a sequence of one-character strings.

T_Empty == <<>>
T_NA == <<"N", "/", "A">>
T_select == <<"s", "e", "l", "e", "c", "t">>

\* str.strip() on the left: leading blanks removed.
RECURSIVE lstrip(_)
lstrip(s) ==
  IF s = <<>> THEN s
  ELSE IF Head(s) = " " THEN lstrip(Tail(s)) ELSE s

\* str.strip() on the right: trailing blanks removed.
RECURSIVE rstrip(_)
rstrip(s) ==
  IF s = <<>> THEN s
  ELSE IF s[Len(s)] = " " THEN rstrip(SubSeq(s, 1, Len(s) - 1)) ELSE s

\* str.strip()
strip(s) == rstrip(lstrip(s))

\* str.lower() on the letters the inputs use.
lower_char(c) ==
  CASE c = "S" -> "s" [] c = "E" -> "e" [] c = "L" -> "l" [] c = "C" -> "c"
    [] c = "T" -> "t" [] c = "M" -> "m" [] c = "R" -> "r" [] c = "B" -> "b"
    [] OTHER -> c
lower(s) == [i \in 1..Len(s) |-> lower_char(s[i])]

\* str.replace(c, ''): every occurrence of the character removed.
remove_char(s, c) == SelectSeq(s, LAMBDA x : x # c)

\* str.split("?")[0]: the text before the first question mark.
RECURSIVE before_query(_)
before_query(s) ==
  IF s = <<>> THEN s
  ELSE IF Head(s) = "?" THEN <<>>
  ELSE <<Head(s)>> \o before_query(Tail(s))

Digits == {"0", "1", "2", "3", "4", "5", "6", "7", "8", "9"}
digit_val(c) ==
  CASE c = "0" -> 0 [] c = "1" -> 1 [] c = "2" -> 2 [] c = "3" -> 3 [] c = "4" -> 4
    [] c = "5" -> 5 [] c = "6" -> 6 [] c = "7" -> 7 [] c = "8" -> 8 [] c = "9" -> 9

\* The integer a sequence of digits writes.
RECURSIVE int_of(_)
int_of(s) ==
  IF s = <<>> THEN 0 ELSE 10 * int_of(SubSeq(s, 1, Len(s) - 1)) + digit_val(s[Len(s)])

\* A decimal number mant / 10^exp with no trailing zero in its fraction, so
\* that equal numbers are equal values (1234.50 = 1234.5).
RECURSIVE Num(_, _)
Num(mant, exp) ==
  IF exp > 0 /\ mant % 10 = 0 THEN Num(mant \div 10, exp - 1)
  ELSE [num |-> TRUE, mant |-> mant, exp |-> exp, text |-> <<>>]

\* A price kept as text.
Raw(t) == [num |-> FALSE, mant |-> 0, exp |-> 0, text |-> t]

\* float(s) accepts s: digits with at most one decimal point and at least one
\* digit (the inputs hold no sign, exponent, inf or nan).
is_float(s) ==
  /\ \A i \in 1..Len(s) : s[i] \in Digits \cup {"."}
  /\ Len(SelectSeq(s, LAMBDA x : x = ".")) <= 1
  /\ Len(SelectSeq(s, LAMBDA x : x \in Digits)) >= 1

\* float(s) for an accepted s.
float(s) ==
  Num(int_of(remove_char(s, ".")),
      IF \E i \in 1..Len(s) : s[i] = "."
      THEN Len(s) - (CHOOSE i \in 1..Len(s) : s[i] = ".")
      ELSE 0)

\* ------------------------------------------------------------ extraction
\* What the DOM gives for one selector of a fallback chain: the first matching
\* element's text, or no element within the timeout.
NoElem == [found |-> FALSE, text |-> <<>>]
Elem(t) == [found |-> TRUE, text |-> t]

\* The chain that returns the text of the last candidate with text.
RECURSIVE safe_find_last(_)
safe_find_last(selected) ==
  IF selected = <<>> THEN T_NA
  ELSE IF selected[Len(selected)].found /\ strip(selected[Len(selected)].text) # <<>>
       THEN strip(selected[Len(selected)].text)
       ELSE safe_find_last(SubSeq(selected, 1, Len(selected) - 1))

\* lines 186-199: safe_find_text_by_css over the list of selectors, where
\* selected[i] is what the wait on selector i gives.  (The str branch of
\* line 187 is not taken by the one caller.)
RECURSIVE safe_find_text_by_css(_)
safe_find_text_by_css(selected) ==
  IF selected = <<>> THEN T_NA
  ELSE IF Head(selected).found /\ strip(Head(selected).text) # <<>>
       THEN strip(Head(selected).text)
       ELSE safe_find_text_by_css(Tail(selected))

\* The conversion that keeps the thousands separators in the text.
price_of_text_keep_commas(text) ==
  IF is_float(strip(remove_char(text, "$")))
  THEN float(strip(remove_char(text, "$")))
  ELSE Raw(text)

\* lines 260-263: float(text.replace('$', '').replace(',', '').strip()), and
\* the text itself when float raises.
price_of_text(text) ==
  IF is_float(strip(remove_char(remove_char(text, "$"), ",")))
  THEN float(strip(remove_char(remove_char(text, "$"), ",")))
  ELSE Raw(text)

\* lines 246-266: extract_price over its selectors.
RECURSIVE extract_price(_)
extract_price(selected) ==
  IF selected = <<>> THEN Num(0, 0)
  ELSE IF Head(selected).found /\ strip(Head(selected).text) # <<>>
       THEN price_of_text(strip(Head(selected).text))
       ELSE extract_price(Tail(selected))

\* The non-empty trimmed texts of the elements one selector matches.
names_of(group) == {strip(group[i]) : i \in 1..Len(group)} \ {<<>>}

\* lines 211-218: the loop over the selector groups stops at the first group
\* that leaves color_names non-empty.
RECURSIVE first_names(_)
first_names(groups) ==
  IF groups = <<>> THEN {}
  ELSE IF names_of(Head(groups)) # {} THEN names_of(Head(groups))
  ELSE first_names(Tail(groups))

\* lines 201-225: extract_colors; alts are the alt attributes of the images
\* whose alt mentions color.
extract_colors(groups, alts) ==
  LET color_names == first_names(groups)
      from_alts == {strip(alts[i]) : i \in {j \in 1..Len(alts) : alts[j] # <<>>}}
      found == IF color_names # {} THEN color_names ELSE from_alts
  IN  IF found # {} THEN found ELSE {T_NA}

\* The size texts of the elements one selector matches, placeholder dropped.
size_names_of(group) == {t \in names_of(group) : lower(t) # T_select}

\* The loop without its break: the groups' texts are merged.
RECURSIVE merged_size_names(_)
merged_size_names(groups) ==
  IF groups = <<>> THEN {}
  ELSE size_names_of(Head(groups)) \cup merged_size_names(Tail(groups))

\* lines 236-243: the loop stops at the first group that leaves size_names
\* non-empty.
RECURSIVE first_size_names(_)
first_size_names(groups) ==
  IF groups = <<>> THEN {}
  ELSE IF size_names_of(Head(groups)) # {} THEN size_names_of(Head(groups))
  ELSE first_size_names(Tail(groups))

\* lines 227-244: extract_sizes
extract_sizes(groups) ==
  IF first_size_names(groups) # {} THEN first_size_names(groups) ELSE {T_NA}

\* line 288: thumbs[:5]
ThumbCap == 5

\* A thumbnail: whether click and the main-image lookup return, and the src
\* attribute read then (empty for None).
Thumb(ok, src) == [ok |-> ok, src |-> src]

\* The loop that appends every src it reads.
RECURSIVE collect_images_no_dedup(_, _)
collect_images_no_dedup(thumbs, image_urls) ==
  IF thumbs = <<>> THEN image_urls
  ELSE collect_images_no_dedup(Tail(thumbs),
         IF Head(thumbs).ok /\ Head(thumbs).src # <<>>
         THEN Append(image_urls, Head(thumbs).src)
         ELSE image_urls)

\* lines 288-297: the loop over the thumbnails.
RECURSIVE collect_images(_, _)
collect_images(thumbs, image_urls) ==
  IF thumbs = <<>> THEN image_urls
  ELSE collect_images(Tail(thumbs),
         IF /\ Head(thumbs).ok
            /\ Head(thumbs).src # <<>>
            /\ \A i \in 1..Len(image_urls) : image_urls[i] # Head(thumbs).src
         THEN Append(image_urls, Head(thumbs).src)
         ELSE image_urls)

\* line 288: thumbs[:5]
first_thumbs(thumbs) ==
  SubSeq(thumbs, 1, IF Len(thumbs) < ThumbCap THEN Len(thumbs) ELSE ThumbCap)

\* lines 286-298: the image list of a page with these thumbnails.
extract_images(thumbs) == collect_images(first_thumbs(thumbs), <<>>)

\* lines 315-316: the set of hrefs, each cut at its first question mark;
\* hrefs[i] is empty for an anchor without href.
extract_links(hrefs) ==
  {before_query(hrefs[i]) : i \in {j \in 1..Len(hrefs) : hrefs[j] # <<>>}}

\* The two product pages of the requests: what each selector matches there.
Dom(url) ==
  IF url = "walmart/ip/1"
  THEN [captcha |-> FALSE,
        title |-> <<NoElem, Elem(<<" ", "L", "e", "g", "o", " ">>)>>,
        price |-> <<Elem(<<"$", "1", ",", "2", "3", "4", ".", "5", "0">>), NoElem, NoElem, NoElem>>,
        colors |-> << <<>>, << <<"R", "e", "d">>, <<"R", "e", "d", " ">> >>,
                      << <<"B", "l", "u", "e">> >>, <<>>, <<>>, <<>> >>,
        alts |-> <<>>,
        sizes |-> << << <<"S", "e", "l", "e", "c", "t">> >>, <<>>, <<>>, <<>>, <<>> >>,
        thumbs |-> <<Thumb(TRUE, <<"u", "1">>), Thumb(TRUE, <<"u", "1">>),
                     Thumb(TRUE, <<"u", "2">>)>>,
        about |-> << <<"B", "r", "i", "c", "k", "s">> >>,
        hrefs |-> << <<"/", "i", "p", "/", "2", "?", "t", "=", "5">>,
                     <<"/", "i", "p", "/", "2", "?", "t", "=", "9">> >>]
  ELSE [captcha |-> TRUE,
        title |-> <<NoElem, NoElem>>,
        price |-> <<NoElem, Elem(<<"C", "a", "l", "l">>), NoElem, NoElem>>,
        colors |-> << <<>>, <<>>, <<>>, <<>>, <<>>, <<>> >>,
        alts |-> <<>>,
        sizes |-> << <<>>, << <<"S", "e", "l", "e", "c", "t">> >>,
                     << <<"L">>, <<" ", "M">> >>, <<>>, <<>> >>,
        thumbs |-> <<>>,
        about |-> <<>>,
        hrefs |-> <<>>]

\* What a healthy session reads from the page behind a URL: lines 272-277 and
\* the three blocks after them, on that page.
PageOf(url) ==
  [captcha |-> Dom(url).captcha,
   title |-> safe_find_text_by_css(Dom(url).title),
   price |-> extract_price(Dom(url).price),
   colors |-> extract_colors(Dom(url).colors, Dom(url).alts),
   sizes |-> extract_sizes(Dom(url).sizes),
   images |-> extract_images(Dom(url).thumbs),
   about |-> Dom(url).about,
   links |-> extract_links(Dom(url).hrefs)]

Workers == 1..NumWorkers
Calls == 1..MaxRegs
NoJob == [product_url |-> "", category |-> "", client_name |-> "", task_id |-> 0]
\* lines 268-281: the dict product, before any field has been extracted.
EmptyProduct(j) ==
  [client_name |-> j.client_name, category |-> j.category, task_id |-> j.task_id,
   title |-> T_Empty, price |-> Num(0, 0), images |-> <<>>, about_this_item |-> <<>>,
   colors |-> {}, sizes |-> {}, product_url |-> j.product_url,
   related_links |-> {}]

NoRequest == [client_name |-> "", client_email |-> ""]
Terminal == {"completed", "failed"}

VARIABLES
  task_col,      \* db["tasks"]: sequence of Task documents, _id = index
  product_col,   \* db["product"]: sequence of Product documents
  client_col,    \* db["clients"]: sequence of Client documents
  submitting,    \* task ids whose submit_task call is between insert_one and delay
  returned,      \* task ids submit_task has returned to its caller
  queue,         \* the Celery broker queue of scrape_and_store messages
  job,           \* worker -> arguments of the scrape_and_store call it runs
  pc,            \* worker -> position in scrape_and_store
  product,       \* worker -> the local dict product
  append_header, \* worker -> the local append_header
  exc,           \* worker -> the exception caught at line 337
  driver,        \* worker -> state of the browser session behind the local driver
  csv_exists,    \* walmart_data.csv exists
  csv_lines,     \* the lines of walmart_data.csv
  reg_pc,        \* register_client call -> position
  reg_req,       \* register_client call -> client_data
  reg_resp,      \* register_client call -> HTTP status returned
  faults,        \* history: worker -> the calls that raised in the running call
  issued,        \* history: worker -> extraction steps the running call has run
  finished,      \* history: task ids whose scrape_and_store call has returned
  csv_order,     \* history: task ids in the order of their CSV appends
  fn,            \* the extraction function applied to a page on its own
  arg,           \* what the page gives that function
  res            \* <<>> before the function has run, then <<its result>>

vars == <<task_col, product_col, client_col, submitting, returned, queue, job, pc,
          product, append_header, exc, driver, csv_exists, csv_lines,
          reg_pc, reg_req, reg_resp, faults, issued, finished, csv_order,
          fn, arg, res>>

regVars == <<client_col, reg_pc, reg_req, reg_resp>>
scrapeVars == <<task_col, product_col, submitting, returned, queue, job, pc, product,
                append_header, exc, driver, csv_exists, csv_lines, faults, issued,
                finished, csv_order>>
subVars == <<submitting, returned>>
csvVars == <<csv_exists, csv_lines, csv_order>>
fieldVars == <<fn, arg, res>>

TaskIds == 1..Len(task_col)

\* The state of the service after start-up.
InitService ==
  /\ task_col = <<>>
  /\ product_col = <<>>
  /\ client_col = <<>>
  /\ submitting = {}
  /\ returned = {}
  /\ queue = <<>>
  /\ job = [w \in Workers |-> NoJob]
  /\ pc = [w \in Workers |-> "idle"]
  /\ product = [w \in Workers |-> EmptyProduct(NoJob)]
  /\ append_header = [w \in Workers |-> FALSE]
  /\ exc = [w \in Workers |-> "none"]
  /\ driver = [w \in Workers |-> "none"]
  /\ csv_exists = FALSE
  /\ csv_lines = <<>>
  /\ reg_pc = [c \in Calls |-> "idle"]
  /\ reg_req = [c \in Calls |-> NoRequest]
  /\ reg_resp = [c \in Calls |-> 0]
  /\ faults = [w \in Workers |-> {}]
  /\ issued = [w \in Workers |-> <<>>]
  /\ finished = {}
  /\ csv_order = <<>>

Init ==
  /\ InitService
  /\ fn = "none"
  /\ arg = <<>>
  /\ res = <<>>

\* ------------------------------------------------------- register_client

\* The lookup with the filter on the wrong field.
find_one_by_name(email) ==
  \E i \in 1..Len(client_col) : client_col[i].client_name = email

\* line 58: existing = client_col.find_one({"client_email": ...})
find_one_client(email) ==
  \E i \in 1..Len(client_col) : client_col[i].client_email = email

\* A register_client request arrives.
RegisterCall(c) ==
  /\ reg_pc[c] = "idle"
  /\ \E r \in ClientRequests : reg_req' = [reg_req EXCEPT ![c] = r]
  /\ reg_pc' = [reg_pc EXCEPT ![c] = "find_one"]
  /\ UNCHANGED <<client_col, reg_resp>>
  /\ UNCHANGED <<scrapeVars, fieldVars>>

\* lines 58-60: the lookup, and the 400 response when it finds a document.
RegisterFind(c) ==
  /\ reg_pc[c] = "find_one"
  /\ IF find_one_client(reg_req[c].client_email)
     THEN /\ reg_pc' = [reg_pc EXCEPT ![c] = "done"]
          /\ reg_resp' = [reg_resp EXCEPT ![c] = 400]
     ELSE /\ reg_pc' = [reg_pc EXCEPT ![c] = "insert_one"]
          /\ UNCHANGED reg_resp
  /\ UNCHANGED <<client_col, reg_req>>
  /\ UNCHANGED <<scrapeVars, fieldVars>>

\* lines 61-70: the insert and the success response.
RegisterInsert(c) ==
  /\ reg_pc[c] = "insert_one"
  /\ client_col' = Append(client_col, reg_req[c])
  /\ reg_pc' = [reg_pc EXCEPT ![c] = "done"]
  /\ reg_resp' = [reg_resp EXCEPT ![c] = 200]
  /\ UNCHANGED reg_req
  /\ UNCHANGED <<scrapeVars, fieldVars>>

NoCallInFlight == \A c \in Calls : reg_pc[c] \in {"idle", "done"}

\* ----------------------------------------------------------- submit_task

NoError == "absent"

\* lines 74-82: the Task document is inserted with status pending.
SubmitInsert(req) ==
  /\ Len(task_col) < MaxTasks
  /\ task_col' = Append(task_col,
        [client_name |-> req.client_name, category |-> req.category,
         url |-> req.url, status |-> "pending", error |-> NoError])
  /\ submitting' = submitting \cup {Len(task_col) + 1}
  /\ UNCHANGED <<product_col, returned, queue, job, pc, product, append_header,
                 exc, driver, faults, issued, finished>>
  /\ UNCHANGED <<csvVars, regVars, fieldVars>>

\* lines 84-85: scrape_and_store.delay(...) and the response; when the broker
\* cannot be reached delay raises and the request ends in a server error.
SubmitDelay(t) ==
  /\ t \in submitting
  /\ submitting' = submitting \ {t}
  /\ \E ok \in BOOLEAN :
       IF ok
       THEN /\ queue' = Append(queue,
                  [product_url |-> task_col[t].url, category |-> task_col[t].category,
                   client_name |-> task_col[t].client_name, task_id |-> t])
            /\ returned' = returned \cup {t}
       ELSE UNCHANGED <<queue, returned>>
  /\ UNCHANGED <<task_col, product_col, job, pc, product, append_header, exc,
                 driver, faults, issued, finished>>
  /\ UNCHANGED <<csvVars, regVars, fieldVars>>

\* ------------------------------------------------------ scrape_and_store

\* The order with the image block ahead of the colors and sizes queries.
StepsMediaFirst ==
  << "chrome", "get", "page_source", "title", "price", "images", "colors",
     "sizes", "about", "links", "insert_one", "file_exists", "to_csv",
     "quit", "update_completed" >>

\* The calls of scrape_and_store in the order the function body makes them
\* (lines 164-334).  The dict literal of lines 268-281 evaluates title, price,
\* colors and sizes, in that order, before the image block of line 283.
Steps ==
  << "chrome", "get", "page_source", "title", "price", "colors", "sizes",
     "images", "about", "links", "insert_one", "file_exists", "to_csv",
     "quit", "update_completed" >>

IndexOf(s) == CHOOSE i \in 1..Len(Steps) : Steps[i] = s

\* The call that follows s when s returns normally.
After(s) ==
  IF s = "input" THEN Steps[IndexOf("page_source") + 1]
  ELSE IF IndexOf(s) < Len(Steps) THEN Steps[IndexOf(s) + 1]
  ELSE "idle"

Tid(w) == job[w].task_id
Page(w) == PageOf(job[w].product_url)
Healthy(w) == driver[w] = "open"

\* The call at pc[w] returns and control moves to the next call.
Continue(w) ==
  /\ pc' = [pc EXCEPT ![w] = After(pc[w])]
  /\ UNCHANGED <<exc, faults>>

\* The call at pc[w] raises and nothing between it and line 337 catches it.
Raise(w) ==
  /\ pc' = [pc EXCEPT ![w] = "except"]
  /\ exc' = [exc EXCEPT ![w] = pc[w]]
  /\ faults' = [faults EXCEPT ![w] = @ \cup {pc[w]}]

\* An extraction step is recorded when it runs.
Issue(w) == issued' = [issued EXCEPT ![w] = Append(@, pc[w])]

\* scrape_and_store returns to the worker, which is free for the next message;
\* the locals of the call are gone.
Return(w) ==
  /\ pc' = [pc EXCEPT ![w] = "idle"]
  /\ finished' = finished \cup {Tid(w)}
  /\ job' = [job EXCEPT ![w] = NoJob]
  /\ product' = [product EXCEPT ![w] = EmptyProduct(NoJob)]
  /\ append_header' = [append_header EXCEPT ![w] = FALSE]
  /\ exc' = [exc EXCEPT ![w] = "none"]
  /\ driver' = [driver EXCEPT ![w] = "none"]
  /\ faults' = [faults EXCEPT ![w] = {}]
  /\ issued' = [issued EXCEPT ![w] = <<>>]

\* A delivery that leaves the message on the queue for another worker.
PickupNoAck(w) ==
  /\ pc[w] = "idle"
  /\ queue # <<>>
  /\ job' = [job EXCEPT ![w] = Head(queue)]
  /\ pc' = [pc EXCEPT ![w] = Steps[1]]
  /\ product' = [product EXCEPT ![w] = EmptyProduct(Head(queue))]
  /\ UNCHANGED <<task_col, product_col, queue, exc, append_header, driver, faults,
                 issued, finished>>
  /\ UNCHANGED <<subVars, csvVars, regVars, fieldVars>>

\* A worker takes the next message off the queue and calls scrape_and_store
\* (lines 146-163).
Pickup(w) ==
  /\ pc[w] = "idle"
  /\ queue # <<>>
  /\ job' = [job EXCEPT ![w] = Head(queue)]
  /\ queue' = Tail(queue)
  /\ pc' = [pc EXCEPT ![w] = Steps[1]]
  /\ product' = [product EXCEPT ![w] = EmptyProduct(Head(queue))]
  /\ exc' = [exc EXCEPT ![w] = "none"]
  /\ append_header' = [append_header EXCEPT ![w] = FALSE]
  /\ UNCHANGED <<task_col, product_col, driver, faults, issued, finished>>
  /\ UNCHANGED <<subVars, csvVars, regVars, fieldVars>>

\* line 164: driver = uc.Chrome(...)
StartSession(w) ==
  /\ pc[w] = "chrome"
  /\ \E ok \in BOOLEAN :
       IF ok
       THEN /\ driver' = [driver EXCEPT ![w] = "open"]
            /\ Continue(w)
       ELSE /\ Raise(w)
            /\ UNCHANGED driver
  /\ UNCHANGED <<task_col, product_col, queue, job, product, append_header,
                 issued, finished>>
  /\ UNCHANGED <<subVars, csvVars, regVars, fieldVars>>

\* The browser of a running task crashes; the session object stays, unusable.
Crash(w) ==
  /\ pc[w] \notin {"idle", "chrome", "except", "update_completed"}
  /\ Healthy(w)
  /\ driver' = [driver EXCEPT ![w] = "crashed"]
  /\ faults' = [faults EXCEPT ![w] = @ \cup {"crash"}]
  /\ UNCHANGED <<task_col, product_col, queue, job, pc, product, append_header,
                 exc, issued, finished>>
  /\ UNCHANGED <<subVars, csvVars, regVars, fieldVars>>

\* line 165: driver.get(product_url)
Navigate(w) ==
  /\ pc[w] = "get"
  /\ \E ok \in BOOLEAN :
       IF ok /\ Healthy(w) THEN Continue(w) ELSE Raise(w)
  /\ UNCHANGED <<task_col, product_col, queue, job, product, append_header,
                 driver, issued, finished>>
  /\ UNCHANGED <<subVars, csvVars, regVars, fieldVars>>

\* lines 169-170: the CAPTCHA test on driver.page_source
PageSource(w) ==
  /\ pc[w] = "page_source"
  /\ IF ~Healthy(w) THEN Raise(w)
     ELSE IF Page(w).captcha
          THEN /\ pc' = [pc EXCEPT ![w] = "input"]
               /\ UNCHANGED <<exc, faults>>
          ELSE Continue(w)
  /\ UNCHANGED <<task_col, product_col, queue, job, product, append_header,
                 driver, issued, finished>>
  /\ UNCHANGED <<subVars, csvVars, regVars, fieldVars>>

\* line 171: input(...) returns when ENTER arrives on the worker's stdin, and
\* raises EOFError when stdin is closed.
Input(w) ==
  /\ pc[w] = "input"
  /\ \E ok \in BOOLEAN : IF ok THEN Continue(w) ELSE Raise(w)
  /\ UNCHANGED <<task_col, product_col, queue, job, product, append_header,
                 driver, issued, finished>>
  /\ UNCHANGED <<subVars, csvVars, regVars, fieldVars>>

\* An extraction step that absorbs every exception: the field is what the
\* page gives on a healthy session and the step's default on a crashed one.
Absorbed(w, step, field, value, default) ==
  /\ pc[w] = step
  /\ product' = [product EXCEPT ![w][field] = IF Healthy(w) THEN value ELSE default]
  /\ Issue(w)
  /\ Continue(w)
  /\ UNCHANGED <<task_col, product_col, queue, job, append_header, driver, finished>>
  /\ UNCHANGED <<subVars, csvVars, regVars, fieldVars>>

\* An extraction step whose driver calls nothing guards: a driver exception
\* leaves the function body for line 337.
Unguarded(w, step, field, value) ==
  /\ pc[w] = step
  /\ Issue(w)
  /\ IF Healthy(w)
     THEN /\ product' = [product EXCEPT ![w][field] = value]
          /\ Continue(w)
     ELSE /\ Raise(w)
          /\ UNCHANGED product
  /\ UNCHANGED <<task_col, product_col, queue, job, append_header, driver, finished>>
  /\ UNCHANGED <<subVars, csvVars, regVars, fieldVars>>

\* line 272 with lines 186-199: safe_find_text_by_css, default "N/A"
ExtractTitle(w) == Absorbed(w, "title", "title", Page(w).title, T_NA)

\* line 273 with lines 246-266: extract_price, default 0.0
ExtractPrice(w) == Absorbed(w, "price", "price", Page(w).price, Num(0, 0))

\* line 276 with lines 201-225: extract_colors; find_elements is not guarded
ExtractColors(w) == Unguarded(w, "colors", "colors", Page(w).colors)

\* line 277 with lines 227-244: extract_sizes; find_elements is not guarded
ExtractSizes(w) == Unguarded(w, "sizes", "sizes", Page(w).sizes)

\* lines 283-300: the image block, default [].  The block sleeps between its
\* driver calls (lines 180, 291), and the browser can crash meanwhile: the
\* thumbnails read before the crash are kept, the click on every later one
\* raises and is skipped (lines 296-297), and line 298 stores the partial list.
ExtractImages(w) ==
  /\ pc[w] = "images"
  /\ Issue(w)
  /\ pc' = [pc EXCEPT ![w] = After(pc[w])]
  /\ \/ /\ product' = [product EXCEPT ![w].images =
                          IF Healthy(w) THEN Page(w).images ELSE <<>>]
        /\ UNCHANGED <<driver, faults>>
     \/ /\ Healthy(w)
        /\ \E k \in 0..(Len(first_thumbs(Dom(job[w].product_url).thumbs)) - 1) :
             product' = [product EXCEPT ![w].images =
                           collect_images(
                             SubSeq(first_thumbs(Dom(job[w].product_url).thumbs), 1, k),
                             <<>>)]
        /\ driver' = [driver EXCEPT ![w] = "crashed"]
        /\ faults' = [faults EXCEPT ![w] = @ \cup {"crash"}]
  /\ UNCHANGED <<task_col, product_col, queue, job, append_header, exc, finished>>
  /\ UNCHANGED <<subVars, csvVars, regVars, fieldVars>>

\* lines 302-311: the about-this-item block, default []
ExtractAbout(w) == Absorbed(w, "about", "about_this_item", Page(w).about, <<>>)

\* lines 313-318: the related-links block, default []
ExtractLinks(w) == Absorbed(w, "links", "related_links", Page(w).links, {})

\* line 320: product_col.insert_one(product)
InsertProduct(w) ==
  /\ pc[w] = "insert_one"
  /\ \E ok \in BOOLEAN :
       IF ok
       THEN /\ product_col' = Append(product_col, product[w])
            /\ Continue(w)
       ELSE /\ Raise(w)
            /\ UNCHANGED product_col
  /\ UNCHANGED <<task_col, queue, job, product, append_header, driver, issued,
                 finished>>
  /\ UNCHANGED <<subVars, csvVars, regVars, fieldVars>>

\* line 325: append_header = not file_exists("walmart_data.csv")
FileExists(w) ==
  /\ pc[w] = "file_exists"
  /\ append_header' = [append_header EXCEPT ![w] = ~csv_exists]
  /\ Continue(w)
  /\ UNCHANGED <<task_col, product_col, queue, job, product, driver, issued,
                 finished>>
  /\ UNCHANGED <<subVars, csvVars, regVars, fieldVars>>

HeaderLine == [kind |-> "header", task_id |-> 0]
DataLine(t) == [kind |-> "data", task_id |-> t]

\* to_csv called with header=True whatever append_header is.
CsvTextAlwaysHeader(h, p) == <<HeaderLine, DataLine(p.task_id)>>

\* What to_csv(mode='a', header=h) appends for the one-row frame of product p.
CsvText(h, p) ==
  (IF h THEN <<HeaderLine>> ELSE <<>>) \o <<DataLine(p.task_id)>>

\* The CSV block without its own try/except: a failure reaches line 337.
ToCsvRaises(w) ==
  /\ pc[w] = "to_csv"
  /\ \E ok \in BOOLEAN :
       IF ok
       THEN /\ csv_lines' = csv_lines \o CsvText(append_header[w], product[w])
            /\ csv_exists' = TRUE
            /\ csv_order' = Append(csv_order, Tid(w))
            /\ Continue(w)
       ELSE /\ Raise(w)
            /\ UNCHANGED csvVars
  /\ UNCHANGED <<task_col, product_col, queue, job, product, append_header,
                 driver, issued, finished>>
  /\ UNCHANGED <<subVars, regVars, fieldVars>>

\* lines 326-330: DataFrame([product]).to_csv(...); an exception is printed
\* and the function goes on to line 332.
ToCsv(w) ==
  /\ pc[w] = "to_csv"
  /\ \E ok \in BOOLEAN :
       IF ok
       THEN /\ csv_lines' = csv_lines \o CsvText(append_header[w], product[w])
            /\ csv_exists' = TRUE
            /\ csv_order' = Append(csv_order, Tid(w))
            /\ Continue(w)
       ELSE /\ pc' = [pc EXCEPT ![w] = After(pc[w])]
            /\ faults' = [faults EXCEPT ![w] = @ \cup {pc[w]}]
            /\ UNCHANGED <<exc, csvVars>>
  /\ UNCHANGED <<task_col, product_col, queue, job, product, append_header,
                 driver, issued, finished>>
  /\ UNCHANGED <<subVars, regVars, fieldVars>>

\* line 332: driver.quit()
Quit(w) ==
  /\ pc[w] = "quit"
  /\ \E ok \in BOOLEAN :
       IF ok
       THEN /\ driver' = [driver EXCEPT ![w] = "closed"]
            /\ Continue(w)
       ELSE /\ Raise(w)
            /\ UNCHANGED driver
  /\ UNCHANGED <<task_col, product_col, queue, job, product, append_header,
                 issued, finished>>
  /\ UNCHANGED <<subVars, csvVars, regVars, fieldVars>>

\* update_many with an empty filter: every Task document is written.
update_all(t, status, error) ==
  [i \in DOMAIN task_col |-> [task_col[i] EXCEPT !.status = status, !.error = error]]

\* task_col.update_one({"_id": ObjectId(task_id)}, {"$set": fields})
update_one(t, status, error) ==
  [task_col EXCEPT ![t].status = status, ![t].error = error]

\* lines 334-335: the completed write, after which the function returns.
UpdateCompleted(w) ==
  /\ pc[w] = "update_completed"
  /\ \E ok \in BOOLEAN :
       IF ok
       THEN /\ task_col' = update_one(Tid(w), "completed", task_col[Tid(w)].error)
            /\ Return(w)
       ELSE /\ Raise(w)
            /\ UNCHANGED <<task_col, finished, job, product, append_header,
                           driver, issued>>
  /\ UNCHANGED <<product_col, queue>>
  /\ UNCHANGED <<subVars, csvVars, regVars, fieldVars>>

\* lines 337-340: the handler writes failed and str(e); when this write raises
\* too the exception leaves scrape_and_store.
Except(w) ==
  /\ pc[w] = "except"
  /\ \E ok \in BOOLEAN :
       IF ok
       THEN task_col' = update_one(Tid(w), "failed", exc[w])
       ELSE UNCHANGED task_col
  /\ Return(w)
  /\ UNCHANGED <<product_col, queue>>
  /\ UNCHANGED <<subVars, csvVars, regVars, fieldVars>>

\* ---------------------------------------------------------- specifications

Busy(w) == pc[w] # "idle"

Next ==
  \/ \E req \in TaskRequests : SubmitInsert(req)
  \/ \E t \in TaskIds : SubmitDelay(t)
  \/ \E w \in Workers : Pickup(w)
  \/ \E w \in Workers : StartSession(w)
  \/ \E w \in Workers : Crash(w)
  \/ \E w \in Workers : Navigate(w)
  \/ \E w \in Workers : PageSource(w)
  \/ \E w \in Workers : Input(w)
  \/ \E w \in Workers : ExtractTitle(w)
  \/ \E w \in Workers : ExtractPrice(w)
  \/ \E w \in Workers : ExtractColors(w)
  \/ \E w \in Workers : ExtractSizes(w)
  \/ \E w \in Workers : ExtractImages(w)
  \/ \E w \in Workers : ExtractAbout(w)
  \/ \E w \in Workers : ExtractLinks(w)
  \/ \E w \in Workers : InsertProduct(w)
  \/ \E w \in Workers : FileExists(w)
  \/ \E w \in Workers : ToCsv(w)
  \/ \E w \in Workers : Quit(w)
  \/ \E w \in Workers : UpdateCompleted(w)
  \/ \E w \in Workers : Except(w)

Spec == Init /\ [][Next]_vars

\* No call of submit_task or scrape_and_store is in progress.
Quiet == submitting = {} /\ \A w \in Workers : ~Busy(w)

\* One call at a time: a submit_task or scrape_and_store call starts only
\* while no other is in progress.
NextSeq ==
  \/ \E req \in TaskRequests : Quiet /\ SubmitInsert(req)
  \/ \E t \in TaskIds : SubmitDelay(t)
  \/ \E w \in Workers : Quiet /\ Pickup(w)
  \/ \E w \in Workers : StartSession(w)
  \/ \E w \in Workers : Crash(w)
  \/ \E w \in Workers : Navigate(w)
  \/ \E w \in Workers : PageSource(w)
  \/ \E w \in Workers : Input(w)
  \/ \E w \in Workers : ExtractTitle(w)
  \/ \E w \in Workers : ExtractPrice(w)
  \/ \E w \in Workers : ExtractColors(w)
  \/ \E w \in Workers : ExtractSizes(w)
  \/ \E w \in Workers : ExtractImages(w)
  \/ \E w \in Workers : ExtractAbout(w)
  \/ \E w \in Workers : ExtractLinks(w)
  \/ \E w \in Workers : InsertProduct(w)
  \/ \E w \in Workers : FileExists(w)
  \/ \E w \in Workers : ToCsv(w)
  \/ \E w \in Workers : Quit(w)
  \/ \E w \in Workers : UpdateCompleted(w)
  \/ \E w \in Workers : Except(w)

SpecSeq == Init /\ [][NextSeq]_vars

\* register_client calls executed one after another.
NextRegSeq ==
  \/ \E c \in Calls : NoCallInFlight /\ RegisterCall(c)
  \/ \E c \in Calls : RegisterFind(c)
  \/ \E c \in Calls : RegisterInsert(c)

SpecRegSeq == Init /\ [][NextRegSeq]_vars

\* register_client requests served concurrently: the lookup and the insert of
\* one call are separate steps, and other calls run between them.
NextReg ==
  \/ \E c \in Calls : RegisterCall(c)
  \/ \E c \in Calls : RegisterFind(c)
  \/ \E c \in Calls : RegisterInsert(c)

SpecReg == Init /\ [][NextReg]_vars

\* ------------------------------------------- the field functions on their own

\* All sequences over S of length at most n.
SeqsUpTo(S, n) == UNION {[1..k -> S] : k \in 0..n}

TitleTexts == {<<>>, <<" ">>, <<" ", "a">>, <<"b", " ">>, <<"a">>}
TitleElems == {NoElem} \cup {Elem(t) : t \in TitleTexts}

\* line 247-252: the four price selectors
NumPriceSelectors == 4
PriceAlphabet == {"$", ",", "1", "0", ".", "x"}
T_1234_50 == <<"$", "1", ",", "2", "3", "4", ".", "5", "0">>
T_Contact == <<"C", "o", "n", "t", "a", "c", "t", " ", "f", "o", "r", " ",
               "p", "r", "i", "c", "e">>
PriceTexts ==
  SeqsUpTo(PriceAlphabet, MaxPriceLen)
    \cup {T_1234_50, T_Contact, <<"$", " ", "1">>, <<" ", "1", "5", " ">>}
\* A price chain: per selector no element, a blank element, the text under
\* test, or another priced element.
PriceChain(t, pat) ==
  [i \in 1..NumPriceSelectors |->
     CASE pat[i] = "absent" -> NoElem
       [] pat[i] = "blank" -> Elem(<<" ">>)
       [] pat[i] = "payload" -> Elem(t)
       [] OTHER -> Elem(<<"9">>)]

\* lines 203-210 and 229-235: six color selectors, five size selectors
NumColorSelectors == 6
NumSizeSelectors == 5
T_Red == <<"R", "e", "d">>
T_Blue == <<"B", "l", "u", "e">>
T_L == <<"L">>
T_M == <<"M">>
T_Select == <<"S", "e", "l", "e", "c", "t">>
T_SELECT == <<"S", "E", "L", "E", "C", "T">>
ColorGroups ==
  { <<>>, << <<" ">> >>, <<T_Red>>, <<T_Blue>>, << <<" ">> \o T_Red, T_Red, T_Blue >> }
ColorAlts ==
  { <<>>, << <<"c", "o", "l", "o", "r", " ">> \o T_Red >>,
    << <<"C", "o", "l", "o", "r", " ">> \o T_Blue,
       <<"C", "o", "l", "o", "r", " ">> \o T_Blue,
       <<"c", "o", "l", "o", "r", " ">> \o T_Red >> }
SizeGroups ==
  { <<>>, <<T_Select>>, <<T_L>>, <<T_select \o <<" ">>, T_M>>,
    <<T_SELECT, <<" ">> >>, <<T_M, T_L, T_M>> }

\* The src the i-th thumbnail can show: its own image, the first image again,
\* nothing, or an exception from click.
Url(i) == <<"u", CHOOSE c \in Digits : digit_val(c) = i>>
ThumbChoices(i) ==
  {Thumb(TRUE, Url(i)), Thumb(TRUE, Url(1)), Thumb(TRUE, <<>>), Thumb(FALSE, <<>>)}
RECURSIVE ThumbListsOfLen(_)
ThumbListsOfLen(k) ==
  IF k = 0 THEN {<<>>}
  ELSE {Append(q, t) : q \in ThumbListsOfLen(k - 1), t \in ThumbChoices(k)}
ThumbLists == UNION {ThumbListsOfLen(k) : k \in 0..MaxThumbs}

T_ip1 == <<"/", "i", "p", "/", "1">>
T_ip2 == <<"/", "i", "p", "/", "2">>
HrefChoices ==
  { <<>>, T_ip1, T_ip1 \o <<"?", "t", "=", "5">>, T_ip1 \o <<"?", "t", "=", "9">>,
    T_ip2 \o <<"?", "t", "=", "5">>, T_ip2 \o <<"?">> }

\* One field function is given one page.
InitFields ==
  /\ InitService
  /\ res = <<>>
  /\ \/ fn = "title" /\ arg \in SeqsUpTo(TitleElems, MaxChain)
     \/ /\ fn = "price"
        /\ \E t \in PriceTexts :
             \E pat \in [1..NumPriceSelectors -> {"absent", "blank", "payload", "other"}] :
               arg = PriceChain(t, pat)
     \/ /\ fn = "colors"
        /\ \E groups \in [1..NumColorSelectors -> ColorGroups] :
             \E alts \in ColorAlts : arg = [groups |-> groups, alts |-> alts]
     \/ fn = "sizes" /\ arg \in [1..NumSizeSelectors -> SizeGroups]
     \/ fn = "images" /\ arg \in ThumbLists
     \/ fn = "links" /\ arg \in SeqsUpTo(HrefChoices, MaxAnchors)

\* The function fn runs on the page and its result is kept.
Apply(f, value) ==
  /\ fn = f
  /\ res = <<>>
  /\ res' = <<value>>
  /\ UNCHANGED <<fn, arg, scrapeVars, regVars>>

\* line 272
ApplyTitle == Apply("title", safe_find_text_by_css(arg))
\* line 273
ApplyPrice == Apply("price", extract_price(arg))
\* line 276
ApplyColors == Apply("colors", extract_colors(arg.groups, arg.alts))
\* line 277
ApplySizes == Apply("sizes", extract_sizes(arg))
\* lines 286-298
ApplyImages == Apply("images", extract_images(arg))
\* lines 315-316
ApplyLinks == Apply("links", extract_links(arg))

NextFields ==
  \/ ApplyTitle
  \/ ApplyPrice
  \/ ApplyColors
  \/ ApplySizes
  \/ ApplyImages
  \/ ApplyLinks

SpecFields == InitFields /\ [][NextFields]_vars

\* ------------------------------------------------------------------ claims

Status(t) == task_col[t].status
HasProductIn(col, t) == \E i \in 1..Len(col) : col[i].task_id = t
HasProduct(t) == HasProductIn(product_col, t)
InSeq(x, q) == \E i \in 1..Len(q) : q[i] = x
IsPrefix(p, q) == Len(p) <= Len(q) /\ \A i \in 1..Len(p) : p[i] = q[i]

\* The status of task t is written as completed or failed in this step.
TerminalWrite(t) ==
  task_col[t].status \notin Terminal /\ task_col'[t].status \in Terminal

\* The scrape_and_store call of worker w returns in this step.
Returns(w) == Busy(w) /\ pc'[w] = "idle"

\* C1: once the scrape_and_store call for a task has returned, the status of
\* the task is completed or failed, never pending or running (the safety half
\* of the claim, which the claim asserts whichever step raised).
C1_ReturnedIsTerminal == \A t \in finished : Status(t) \in Terminal

\* C2: once the worker of a task has finished, a failed task has no Product
\* document (the claim's own instance of "a Product exists iff the task is
\* completed").
C2_FailedHasNoProduct ==
  \A t \in finished : Status(t) = "failed" => ~HasProduct(t)

\* C3: no terminal status is written for a task while the browser session its
\* worker started has not been closed by driver.quit().
C3_QuitBeforeTerminalWrite ==
  [][\A w \in Workers :
       (Busy(w) /\ TerminalWrite(Tid(w))) => driver[w] \in {"none", "closed"}]_vars

\* C4: a task reaches completed or failed only from status running, never
\* directly from pending.
C4_RunningBeforeTerminal ==
  [][\A t \in TaskIds : TerminalWrite(t) => task_col[t].status = "running"]_vars

\* C5: once the status of a task is completed or failed, no step of any
\* operation changes it.
C5_TerminalOnce ==
  [][\A t \in TaskIds :
       task_col[t].status \in Terminal => task_col'[t].status = task_col[t].status]_vars

\* One task has ended completed and another failed, each by its own worker.
C5_Witness ==
  \E t \in finished : \E u \in finished :
    Status(t) = "completed" /\ Status(u) = "failed"

\* The failures of the browser session: it did not start, navigation raised,
\* or it crashed.
SessionFaults == {"chrome", "get", "crash"}

\* C6: a task whose browser session failed to start, crashed, or whose
\* navigation raised does not end in status completed (the claim says it ends
\* failed with an error string, and this is the part of it that does not
\* depend on the handler's own write succeeding).
C6_SessionFaultNotCompleted ==
  [][\A w \in Workers :
       (Returns(w) /\ faults[w] \cap SessionFaults # {})
         => task_col'[Tid(w)].status # "completed"]_vars

\* C7: when the CSV write is the only call of an execution that has failed,
\* the Product document is and stays in the product store, the task is not
\* marked failed, and a call that returns in that condition leaves the task
\* completed.
C7_CsvFailureAbsorbed ==
  [][\A w \in Workers :
       (Busy(w) /\ faults[w] = {"to_csv"})
         => /\ HasProductIn(product_col, Tid(w))
            /\ HasProductIn(product_col', Tid(w))
            /\ task_col'[Tid(w)].status # "failed"
            /\ (Returns(w) => task_col'[Tid(w)].status = "completed")]_vars

\* The CSV write of an execution has failed, nothing else has, and the
\* execution has gone on past driver.quit() to the completed write.
C7_Witness ==
  \E w \in Workers :
    faults[w] = {"to_csv"} /\ pc[w] = "update_completed" /\ HasProduct(Tid(w))

\* No two Client documents hold the same client_email.
UniqueEmails ==
  \A i \in 1..Len(client_col) : \A j \in 1..Len(client_col) :
    client_col[i].client_email = client_col[j].client_email => i = j

\* C8: with register_client calls executed one after another, a call whose
\* client_email a Client document already holds is answered 400 and leaves
\* the client store as it was, and the store never holds two documents with
\* the same client_email.
C8_DuplicateRejected ==
  /\ []UniqueEmails
  /\ [][\A c \in Calls :
          (reg_pc[c] = "find_one" /\ reg_pc'[c] # "find_one"
             /\ \E i \in 1..Len(client_col) :
                  client_col[i].client_email = reg_req[c].client_email)
            => (reg_resp'[c] = 400 /\ reg_pc'[c] = "done"
                  /\ client_col' = client_col)]_vars

\* A second registration of a held email, under another name, was rejected
\* and the first document is still the only one with that email.
C8_Witness ==
  \E c \in Calls :
    /\ reg_resp[c] = 400
    /\ \E i \in 1..Len(client_col) :
         /\ client_col[i].client_email = reg_req[c].client_email
         /\ client_col[i].client_name # reg_req[c].client_name

\* C9: with executions one after another on a file that did not exist, the
\* file is one header line followed by one data line per product written, in
\* write order.
C9_OneHeaderThenRows ==
  csv_lines =
    IF csv_exists
    THEN <<HeaderLine>> \o [i \in 1..Len(csv_order) |-> DataLine(csv_order[i])]
    ELSE <<>>

\* Two products have been written to the file.
C9_Witness == Len(csv_order) = 2 /\ Len(csv_lines) = 3

\* C10 as stated: no colors or sizes query is issued before the image step
\* has run.
C10_MediaBeforeColors ==
  \A w \in Workers :
    (InSeq("colors", issued[w]) \/ InSeq("sizes", issued[w]))
      => InSeq("images", issued[w])

\* C10 amended: the extraction steps of one execution run in the fixed order
\* title, price, colors, sizes, images, about-this-item, related links.
C10_FixedOrder ==
  \A w \in Workers :
    IsPrefix(issued[w],
             <<"title", "price", "colors", "sizes", "images", "about", "links">>)

\* An execution has run all seven extraction steps.
C10_Witness == \E w \in Workers : Len(issued[w]) = 7

\* A scrape_and_store message for task t is on the queue.
Queued(t) == \E i \in 1..Len(queue) : queue[i].task_id = t
\* A worker is inside the scrape_and_store call for task t.
Executing(t) == \E w \in Workers : Busy(w) /\ Tid(w) = t

\* C11: every task id that is queued, being executed or returned to a caller
\* has a Task document, and every Task document whose submit_task call has
\* finished has had a job enqueued for it (it is queued, being executed or
\* done), also when the enqueue step failed.
C11_RecordThenJob ==
  /\ \A i \in 1..Len(queue) : queue[i].task_id \in TaskIds
  /\ \A w \in Workers : Busy(w) => Tid(w) \in TaskIds
  /\ returned \subseteq TaskIds
  /\ \A t \in TaskIds \ submitting : Queued(t) \/ Executing(t) \/ t \in finished

\* C12: at most one worker is inside scrape_and_store for a task id, no task
\* id is both queued and being executed or done, and a step that changes the
\* status of a task is a step of the one worker executing it.
C12_SingleWorker ==
  /\ [](\A w \in Workers : \A v \in Workers :
          (Busy(w) /\ Busy(v) /\ Tid(w) = Tid(v)) => w = v)
  /\ [](\A t \in TaskIds : Queued(t) => ~Executing(t) /\ t \notin finished)
  /\ [][\A t \in TaskIds :
          task_col'[t].status # task_col[t].status
            => \E w \in Workers :
                 /\ Busy(w) /\ Tid(w) = t /\ pc'[w] # pc[w]
                 /\ \A v \in Workers : (Busy(v) /\ Tid(v) = t) => v = w]_vars

\* Two workers are inside scrape_and_store at once, each for its own task, one
\* about to write completed and the other about to write failed.
C12_Witness ==
  /\ \E w \in Workers : \E v \in Workers :
       w # v /\ Busy(w) /\ Busy(v) /\ pc[w] = "update_completed" /\ pc[v] = "except"
  /\ Len(task_col) = MaxTasks

\* C14: while scrape_and_store waits at the CAPTCHA prompt no extraction step
\* has run, and the Task document shows a state other than the pending or
\* running of a normal task and other than failed.
C14_CaptchaSuspensionVisible ==
  \A w \in Workers :
    pc[w] = "input"
      => /\ issued[w] = <<>>
         /\ Status(Tid(w)) \notin {"pending", "running", "failed"}

\* C19: with register_client requests interleaved, the client store never
\* holds two Client documents with the same client_email.
C19_UniqueEmailConcurrent ==
  \A i \in 1..Len(client_col) : \A j \in (i + 1)..Len(client_col) :
    client_col[i].client_email # client_col[j].client_email

\* C20: with the workers' file-exists checks and appends interleaved, the
\* CSV file never holds more than one header line.
C20_AtMostOneHeader ==
  Cardinality({i \in 1..Len(csv_lines) : csv_lines[i].kind = "header"}) <= 1

\* The text has a character that is not a blank.
HasText(t) == \E i \in 1..Len(t) : t[i] # " "
\* r is t without its leading and trailing blanks.
IsTrimOf(r, t) ==
  /\ r # <<>> => (r[1] # " " /\ r[Len(r)] # " ")
  /\ \E a \in 0..Len(t) :
       /\ a + Len(r) <= Len(t)
       /\ SubSeq(t, a + 1, a + Len(r)) = r
       /\ \A i \in (1..a) \cup ((a + Len(r) + 1)..Len(t)) : t[i] = " "
\* The candidates of a chain that match with text, and the first of them.
Hits(selected) == {i \in 1..Len(selected) : selected[i].found /\ HasText(selected[i].text)}
FirstOf(S) == CHOOSE i \in S : \A j \in S : i <= j

\* C15: the result of safe_find_text_by_css is the trimmed text of the first
\* candidate, in declared order, that matches with non-empty text, whatever
\* the candidates after it hold, and "N/A" when no candidate has text.
C15_FirstNonEmptyWins ==
  (fn = "title" /\ res # <<>>)
    => IF Hits(arg) = {} THEN res[1] = T_NA
       ELSE /\ IsTrimOf(res[1], arg[FirstOf(Hits(arg))].text)
            /\ res[1] # <<>>
            /\ \A later \in SeqsUpTo(TitleElems, 1) :
                 safe_find_text_by_css(SubSeq(arg, 1, FirstOf(Hits(arg))) \o later) = res[1]

\* Only the second candidate is a first hit: the first is missing or blank, a
\* later one has other text, and the hit's text had blanks to trim.
C15_Witness ==
  /\ fn = "title" /\ res # <<>>
  /\ Len(arg) = 3 /\ FirstOf(Hits(arg) \cup {3}) = 2
  /\ arg[2].text = <<" ", "a">> /\ arg[3] = Elem(<<"b", " ">>)
  /\ res[1] = <<"a">>

Pow10(n) == IF n = 0 THEN 1 ELSE IF n = 1 THEN 10 ELSE IF n = 2 THEN 100
            ELSE IF n = 3 THEN 1000 ELSE IF n = 4 THEN 10000 ELSE 100000
\* The text of the first price candidate with text, trimmed, and that text
\* without currency symbol and thousands separators.
PriceText(selected) == strip(selected[FirstOf(Hits(selected))].text)
PriceCleaned(selected) == strip(remove_char(remove_char(PriceText(selected), "$"), ","))
DigitsOf(t) == SelectSeq(t, LAMBDA x : x \in Digits)
FractionLen(t) ==
  IF \E i \in 1..Len(t) : t[i] = "." THEN Len(t) - (CHOOSE i \in 1..Len(t) : t[i] = ".")
  ELSE 0
IsDecimal(t) ==
  /\ DigitsOf(t) # <<>>
  /\ \A i \in 1..Len(t) : t[i] \in Digits \/ t[i] = "."
  /\ \A i \in 1..Len(t) : \A j \in 1..Len(t) : (t[i] = "." /\ t[j] = ".") => i = j

\* C16: extract_price takes the first candidate with non-empty text; when the
\* text without "$" and "," is a number the price is that number, otherwise
\* the price is the trimmed text itself; with no candidate text it is 0.0;
\* "$1,234.50" gives 1234.50 and "Contact for price" is kept verbatim.
C16_PriceParsing ==
  (fn = "price" /\ res # <<>>)
    => IF Hits(arg) = {} THEN res[1] = [num |-> TRUE, mant |-> 0, exp |-> 0, text |-> <<>>]
       ELSE /\ IF IsDecimal(PriceCleaned(arg))
               THEN /\ res[1].num
                    /\ res[1].mant * Pow10(FractionLen(PriceCleaned(arg)))
                         = int_of(DigitsOf(PriceCleaned(arg))) * Pow10(res[1].exp)
               ELSE /\ ~res[1].num
                    /\ IsTrimOf(res[1].text, arg[FirstOf(Hits(arg))].text)
            /\ arg[FirstOf(Hits(arg))].text = T_1234_50
                 => res[1] = [num |-> TRUE, mant |-> 12345, exp |-> 1, text |-> <<>>]
            /\ arg[FirstOf(Hits(arg))].text = T_Contact
                 => res[1] = [num |-> FALSE, mant |-> 0, exp |-> 0, text |-> T_Contact]

\* "$1,234.50" is the text of the third candidate, after a missing and a blank
\* one and before another priced one, and the price is 1234.5.
C16_Witness ==
  /\ fn = "price" /\ res # <<>>
  /\ arg = <<NoElem, Elem(<<" ">>), Elem(T_1234_50), Elem(<<"9">>)>>
  /\ res[1].num /\ res[1].mant = 12345 /\ res[1].exp = 1

\* The non-empty trimmed texts among the texts of a list of elements.
Pieces(t) == {SubSeq(t, a, b) : a \in 1..(Len(t) + 1), b \in 0..Len(t)}
TextsOf(group) ==
  {r \in UNION {Pieces(group[i]) : i \in 1..Len(group)} :
     r # <<>> /\ \E i \in 1..Len(group) : IsTrimOf(r, group[i])}
\* The text is the placeholder "select" in some capitalisation.
IsPlaceholder(t) ==
  Len(t) = Len(T_select) /\ \A i \in 1..Len(t) : t[i] \in {T_select[i], T_SELECT[i]}
SizeTextsOf(group) == {t \in TextsOf(group) : ~IsPlaceholder(t)}
\* The texts of the non-empty alt attributes.
AltTextsOf(alts) ==
  {r \in UNION {Pieces(alts[i]) : i \in 1..Len(alts)} :
     \E i \in 1..Len(alts) : alts[i] # <<>> /\ IsTrimOf(r, alts[i])}

\* The colors are the texts of the first group with text; the alt texts are
\* used only when no group has text; "N/A" stands only for nothing found.
ColorsFromFirstGroup ==
  (fn = "colors" /\ res # <<>>)
    => LET G == {i \in 1..Len(arg.groups) : TextsOf(arg.groups[i]) # {}}
       IN  /\ G # {} => res[1] = TextsOf(arg.groups[FirstOf(G)])
           /\ (G = {} /\ AltTextsOf(arg.alts) # {}) => res[1] = AltTextsOf(arg.alts)
           /\ (G = {} /\ AltTextsOf(arg.alts) = {}) => res[1] = {T_NA}
           /\ T_NA \in res[1] => (G = {} /\ AltTextsOf(arg.alts) = {})

\* C17 as stated: colors and sizes are the distinct non-empty texts of the
\* first group that yields any non-empty match, never of two groups; sizes
\* never hold the placeholder "select"; the alt texts serve colors only when
\* no group matched; ["N/A"] stands for nothing found.
C17_FirstGroupWithAnyText ==
  /\ ColorsFromFirstGroup
  /\ (fn = "sizes" /\ res # <<>>)
       => LET G == {i \in 1..Len(arg) : TextsOf(arg[i]) # {}}
              sized == IF G = {} THEN {} ELSE SizeTextsOf(arg[FirstOf(G)])
          IN  /\ res[1] = IF sized # {} THEN sized ELSE {T_NA}
              /\ \A t \in res[1] : ~IsPlaceholder(t)

\* C17, amended: for sizes the group is the first one that yields a non-empty
\* text other than the placeholder "select"; the rest is as stated.
C17_FirstGroupWithNames ==
  /\ ColorsFromFirstGroup
  /\ (fn = "sizes" /\ res # <<>>)
       => LET G == {i \in 1..Len(arg) : SizeTextsOf(arg[i]) # {}}
          IN  /\ G # {} => res[1] = SizeTextsOf(arg[FirstOf(G)])
              /\ G = {} => res[1] = {T_NA}
              /\ \A t \in res[1] : ~IsPlaceholder(t)
              /\ T_NA \in res[1] => G = {}

\* The first size group holds only the placeholder, the second one size and
\* the third two: the sizes are those of the second group.
C17_Witness ==
  /\ fn = "sizes" /\ res # <<>>
  /\ arg[1] = <<T_Select>> /\ arg[2] = <<T_L>> /\ arg[3] = <<T_M, T_L, T_M>>
  /\ res[1] = {T_L}

\* The thumbnails the loop visits that show an image, and where a URL is
\* first shown.
Visited(thumbs) ==
  {i \in 1..Len(thumbs) : i <= 5 /\ thumbs[i].ok /\ thumbs[i].src # <<>>}
FirstShown(thumbs, u) == FirstOf({i \in Visited(thumbs) : thumbs[i].src = u})
HasQuery(t) == \E i \in 1..Len(t) : t[i] = "?"
\* e is href up to its query string.
IsPathOf(e, href) ==
  /\ Len(e) <= Len(href)
  /\ e = SubSeq(href, 1, Len(e))
  /\ ~HasQuery(e)
  /\ Len(e) < Len(href) => href[Len(e) + 1] = "?"

\* C18: images holds no URL twice, at most 5 URLs, in the order of their
\* first encounter; related_links holds each href without its query string,
\* once, so hrefs that differ only after "?" give one entry.
C18_DedupImagesAndLinks ==
  /\ (fn = "images" /\ res # <<>>)
       => /\ \A i \in 1..Len(res[1]) : \A j \in 1..Len(res[1]) :
               res[1][i] = res[1][j] => i = j
          /\ Len(res[1]) <= 5
          /\ {res[1][i] : i \in 1..Len(res[1])} = {arg[i].src : i \in Visited(arg)}
          /\ \A i \in 1..Len(res[1]) : \A j \in 1..Len(res[1]) :
               i < j => FirstShown(arg, res[1][i]) < FirstShown(arg, res[1][j])
  /\ (fn = "links" /\ res # <<>>)
       => /\ \A e \in res[1] : ~HasQuery(e)
          /\ \A e \in res[1] : \E i \in 1..Len(arg) : arg[i] # <<>> /\ IsPathOf(e, arg[i])
          /\ \A i \in 1..Len(arg) :
               arg[i] # <<>> => \E e \in res[1] : IsPathOf(e, arg[i])
          /\ \A i \in 1..Len(arg) : \A j \in 1..Len(arg) :
               (arg[i] # <<>> /\ arg[j] # <<>>
                  /\ \E e \in Pieces(arg[i]) : IsPathOf(e, arg[i]) /\ IsPathOf(e, arg[j]))
                 => Cardinality({e \in res[1] : IsPathOf(e, arg[i]) \/ IsPathOf(e, arg[j])}) = 1

\* Six thumbnails: the second shows the first image again, the fourth raises,
\* the sixth is beyond the cap; three URLs are kept in the order met.
C18_Witness ==
  /\ fn = "images" /\ res # <<>>
  /\ arg = <<Thumb(TRUE, Url(1)), Thumb(TRUE, Url(1)), Thumb(TRUE, Url(3)),
             Thumb(FALSE, <<>>), Thumb(TRUE, Url(5)), Thumb(TRUE, Url(6))>>
  /\ res[1] = <<Url(1), Url(3), Url(5)>>

\* Product document p holds the arguments of its own task and, field by
\* field, what its own task's page gives or the field's default.
OwnValues(p) ==
  /\ p.task_id \in TaskIds
  /\ p.client_name = task_col[p.task_id].client_name
  /\ p.category = task_col[p.task_id].category
  /\ p.product_url = task_col[p.task_id].url
  /\ p.title \in {PageOf(p.product_url).title, T_NA}
  /\ p.price \in {PageOf(p.product_url).price, Num(0, 0)}
  /\ p.colors = PageOf(p.product_url).colors
  /\ p.sizes = PageOf(p.product_url).sizes
  /\ \E k \in 0..Len(Dom(p.product_url).thumbs) :
       p.images = extract_images(SubSeq(Dom(p.product_url).thumbs, 1, k))
  /\ p.about_this_item \in {PageOf(p.product_url).about, <<>>}
  /\ p.related_links \in {PageOf(p.product_url).links, {}}
NoCrossContamination == \A i \in 1..Len(product_col) : OwnValues(product_col[i])

\* C13: when the workers of two tasks for different URLs have run, in any
\* interleaving, both tasks are completed or failed, and every Product
\* document holds the values of its own task and page only.
C13_BothEndOwnValues ==
  /\ (Len(task_col) = 2 /\ finished = {1, 2}
        /\ task_col[1].url # task_col[2].url)
       => (Status(1) \in Terminal /\ Status(2) \in Terminal)
  /\ NoCrossContamination

====
